---- MODULE Spec2Model ----
(***************************************************************************)
(* Model of parse.py: a test-harness generator for the last function of    *)
(* main.c.  main() picks the target function, lists its parameters,        *)
(* flattens every parameter type into local variables (local_vars), turns  *)
(* them into declaration/assignment statements (initializers) and prints   *)
(* the harness (codegen).                                                  *)
(*                                                                         *)
(* Strings are TLA+ strings and f-strings are concatenations.  A text made *)
(* of several lines is the sequence of its lines.  Sequences are 1-based:  *)
(* Python index i is index i + 1 here.                                     *)
(***************************************************************************)
EXTENDS Integers, Sequences, FiniteSets, TLC

VARIABLES pc, funcdecls, target, parmesan, parm, locals, this_boy_inits,
          inits, stdout, fragment, error

vars == <<pc, funcdecls, target, parmesan, parm, locals, this_boy_inits,
          inits, stdout, fragment, error>>

-----------------------------------------------------------------------------
(* Bounds of the explored inputs *)

\* greatest number of type nodes in a type given to local_vars on its own
MaxNodes == 4
\* greatest number of type nodes in the parameter list of the target
MaxParmNodes == 3
\* greatest number of function declarations in the translation unit
MaxDecls == 2
\* greatest source line of a function declaration
MaxLine == 2

-----------------------------------------------------------------------------
(* Values of the clang binding and of Python *)

filename == "main.c"
OtherFile == "lib.h"

INT == "TypeKind.INT"
UINT == "TypeKind.UINT"
CHAR_S == "TypeKind.CHAR_S"
POINTER == "TypeKind.POINTER"
ELABORATED == "TypeKind.ELABORATED"
FLOAT == "TypeKind.FLOAT"
DOUBLE == "TypeKind.DOUBLE"

\* the value of a Python function that falls off its end
None == "<None>"
\* no exception raised
NoException == <<>>
\* no cursor bound to target yet
NoTarget == [file |-> "", line |-> 0, spelling |-> ""]

\* names the front end reports for parameters, fields and functions, by position
ParmNames == <<"x", "y", "z", "w", "u", "t">>
FieldNames == <<"a", "b", "c", "d", "e", "f">>
FuncNames == <<"f1", "f2", "f3", "f4">>

\* a type whose kind has no pointee and no fields
Leaf(k) == [kind |-> k]
\* a pointer type: get_pointee() is pointee
PointerTo(t) == [kind |-> POINTER, pointee |-> t]
\* a struct type: get_declaration().get_children() is fields, in declared order
Struct(ts) ==
    [kind |-> ELABORATED,
     fields |-> [j \in 1..Len(ts) |-> [displayname |-> FieldNames[j], type |-> ts[j]]]]

RECURSIVE TypesOfSize(_), TypeListsOfSize(_)
\* the types made of exactly n type nodes
TypesOfSize(n) ==
    IF n = 0 THEN {}
    ELSE (IF n = 1 THEN {Leaf(INT), Leaf(UINT), Leaf(CHAR_S), Leaf(FLOAT), Leaf(DOUBLE)} ELSE {})
         \cup {PointerTo(t) : t \in TypesOfSize(n - 1)}
         \cup {Struct(ts) : ts \in TypeListsOfSize(n - 1)}
\* the lists of types made of exactly n type nodes in all
TypeListsOfSize(n) ==
    IF n = 0 THEN {<<>>}
    ELSE UNION {{<<t>> \o ts : t \in TypesOfSize(k), ts \in TypeListsOfSize(n - k)} :
                k \in 1..n}

\* the parameter lists find(target, PARM_DECL) may return
ParmLists ==
    UNION {{[j \in 1..Len(ts) |-> [displayname |-> ParmNames[j], type |-> ts[j]]] :
            ts \in TypeListsOfSize(n)} : n \in 0..MaxParmNodes}

\* the types local_vars is given on its own
Types == UNION {TypesOfSize(n) : n \in 1..MaxNodes}
\* the variable names local_vars is given on its own
VarNames == {"x", "p"}

\* the function declarations find(cur, FUNCTION_DECL) may enumerate
DeclLists ==
    UNION {{[j \in 1..n |-> [file |-> fl[j][1], line |-> fl[j][2], spelling |-> FuncNames[j]]] :
            fl \in [1..n -> {filename, OtherFile} \X (1..MaxLine)]} : n \in 0..MaxDecls}

-----------------------------------------------------------------------------
(* Python sequence operations *)

Min(a, b) == IF a < b THEN a ELSE b
Max(a, b) == IF a > b THEN a ELSE b

\* s[:stop]
SliceTo(s, stop) ==
    IF stop < 0 THEN SubSeq(s, 1, Max(Len(s) + stop, 0))
    ELSE SubSeq(s, 1, Min(stop, Len(s)))

\* s[-k] for k >= 1 (the caller checks 1 <= k <= Len(s))
FromEnd(s, k) == s[Len(s) - k + 1]

RECURSIVE Join(_, _)
\* sep.join(strs) of strings
Join(sep, strs) ==
    IF Len(strs) = 0 THEN ""
    ELSE IF Len(strs) = 1 THEN strs[1]
    ELSE strs[1] \o sep \o Join(sep, Tail(strs))


-----------------------------------------------------------------------------
(* The program *)

RECURSIVE spelling(_)
\* type.spelling, as the front end prints the type
spelling(type) ==
    IF type.kind = INT THEN "int"
    ELSE IF type.kind = UINT THEN "unsigned int"
    ELSE IF type.kind = CHAR_S THEN "char"
    ELSE IF type.kind = FLOAT THEN "float"
    ELSE IF type.kind = DOUBLE THEN "double"
    ELSE IF type.kind = POINTER
    THEN spelling(type.pointee) \o (IF type.pointee.kind = POINTER THEN "*" ELSE " *")
    ELSE "struct S"

\* the dataclass LocalVariable(type, name, children = 0)
LocalVariable(type, name, children) ==
    [type |-> type, name |-> name, children |-> children]

\* CHANGED: a kind that is not handled is yielded like a primitive
RECURSIVE local_vars_no_raise(_, _), fields_no_raise(_, _)
local_vars_no_raise(type, varname) ==
    IF type.kind = ELABORATED
    THEN [vars |-> Append(fields_no_raise(type.fields, 1),
                          LocalVariable(type, varname, Len(type.fields))),
          exc |-> NoException]
    ELSE IF type.kind = POINTER
    THEN [vars |-> Append(local_vars_no_raise(type.pointee, varname \o "_v").vars,
                          LocalVariable(type, varname, 1)),
          exc |-> NoException]
    ELSE [vars |-> <<LocalVariable(type, varname, 0)>>, exc |-> NoException]
fields_no_raise(children, j) ==
    IF j > Len(children) THEN <<>>
    ELSE local_vars_no_raise(children[j].type, children[j].displayname).vars
         \o fields_no_raise(children, j + 1)

\* CHANGED: the wrapper entry of a struct counts no fields
RECURSIVE local_vars_no_count(_, _), fields_no_count(_, _)
local_vars_no_count(type, varname) ==
    IF type.kind = ELABORATED
    THEN LET sub == fields_no_count(type.fields, 1)
         IN  IF sub.exc # NoException THEN sub
             ELSE [vars |-> Append(sub.vars, LocalVariable(type, varname, 0)),
                   exc |-> NoException]
    ELSE IF type.kind = POINTER
    THEN LET sub == local_vars_no_count(type.pointee, varname \o "_v")
         IN  IF sub.exc # NoException THEN sub
             ELSE [vars |-> Append(sub.vars, LocalVariable(type, varname, 1)),
                   exc |-> NoException]
    ELSE IF type.kind \in {INT, UINT, CHAR_S}
    THEN [vars |-> <<LocalVariable(type, varname, 0)>>, exc |-> NoException]
    ELSE [vars |-> <<>>, exc |-> <<"local variables unhandled kind", type.kind>>]
fields_no_count(children, j) ==
    IF j > Len(children) THEN [vars |-> <<>>, exc |-> NoException]
    ELSE LET fd == children[j]
             head == local_vars_no_count(fd.type, fd.displayname)
         IN  IF head.exc # NoException THEN head
             ELSE LET rest == fields_no_count(children, j + 1)
                  IN  [vars |-> head.vars \o rest.vars, exc |-> rest.exc]

RECURSIVE local_vars(_, _), local_vars_fields(_, _)
\* local_vars(type, varname) run to its end: vars are the variables yielded,
\* exc the exception that ended the generator (NoException when it returned)
local_vars(type, varname) ==
    IF type.kind = ELABORATED
    THEN LET children == type.fields
             sub == local_vars_fields(children, 1)
         IN  IF sub.exc # NoException THEN sub
             ELSE [vars |-> Append(sub.vars, LocalVariable(type, varname, Len(children))),
                   exc |-> NoException]
    ELSE IF type.kind = POINTER
    THEN LET sub == local_vars(type.pointee, varname \o "_v")
         IN  IF sub.exc # NoException THEN sub
             ELSE [vars |-> Append(sub.vars, LocalVariable(type, varname, 1)),
                   exc |-> NoException]
    ELSE IF type.kind = INT
    THEN [vars |-> <<LocalVariable(type, varname, 0)>>, exc |-> NoException]
    ELSE IF type.kind = UINT
    THEN [vars |-> <<LocalVariable(type, varname, 0)>>, exc |-> NoException]
    ELSE IF type.kind = CHAR_S
    THEN [vars |-> <<LocalVariable(type, varname, 0)>>, exc |-> NoException]
    ELSE [vars |-> <<>>, exc |-> <<"local variables unhandled kind", type.kind>>]
\* the loop "for fd in children: yield from local_vars(fd.type, fd.displayname)",
\* from the j-th child on; an exception ends it
local_vars_fields(children, j) ==
    IF j > Len(children) THEN [vars |-> <<>>, exc |-> NoException]
    ELSE LET fd == children[j]
             head == local_vars(fd.type, fd.displayname)
         IN  IF head.exc # NoException THEN head
             ELSE LET rest == local_vars_fields(children, j + 1)
                  IN  [vars |-> head.vars \o rest.vars, exc |-> rest.exc]

\* declare(v)
declare(v) == spelling(v.type) \o " " \o v.name \o ";"

\* the statement returned for an unknown kind stands for the exception raised
\* on the last line of read_and_assign
Raised == "<raise>"

\* CHANGED: every primitive is read with the signed-integer format
read_and_assign_one_format(vs, i, v) ==
    LET vars_so_far == SubSeq(vs, 1, i - 1)
    IN  IF v.type.kind = ELABORATED
        THEN LET cs == SliceTo(vars_so_far, 0 - v.children)
             IN  IF Len(cs) = 0 THEN None
                 ELSE LET c == cs[Len(cs)] IN v.name \o "." \o c.name \o " = " \o c.name \o ";"
        ELSE IF v.type.kind = POINTER
        THEN v.name \o " = &" \o FromEnd(vars_so_far, v.children).name \o ";"
        ELSE "scanf(\"%d\", &" \o v.name \o ");"

\* CHANGED: a pointer takes the address of the first variable so far
read_and_assign_first(vs, i, v) ==
    LET vars_so_far == SubSeq(vs, 1, i - 1)
    IN  IF v.type.kind = ELABORATED
        THEN LET cs == SliceTo(vars_so_far, 0 - v.children)
             IN  IF Len(cs) = 0 THEN None
                 ELSE LET c == cs[Len(cs)] IN v.name \o "." \o c.name \o " = " \o c.name \o ";"
        ELSE IF v.type.kind = POINTER
        THEN v.name \o " = &" \o vars_so_far[1].name \o ";"
        ELSE IF v.type.kind = INT THEN "scanf(\"%d\", &" \o v.name \o ");"
        ELSE IF v.type.kind = UINT THEN "scanf(\"%u\", &" \o v.name \o ");"
        ELSE IF v.type.kind = CHAR_S THEN "scanf(\" %c\", &" \o v.name \o ");"
        ELSE Raised

\* read_and_assign(i, v) of initializers(vs); i counts from 1
read_and_assign(vs, i, v) ==
    LET vars_so_far == SubSeq(vs, 1, i - 1)
    IN  IF v.type.kind = ELABORATED
        THEN \* for c in reversed(vars_so_far[:-v.children]): return ...
             LET cs == SliceTo(vars_so_far, 0 - v.children)
             IN  IF Len(cs) = 0 THEN None
                 ELSE LET c == cs[Len(cs)] IN v.name \o "." \o c.name \o " = " \o c.name \o ";"
        ELSE IF v.type.kind = POINTER
        THEN v.name \o " = &" \o FromEnd(vars_so_far, v.children).name \o ";"
        ELSE IF v.type.kind = INT THEN "scanf(\"%d\", &" \o v.name \o ");"
        ELSE IF v.type.kind = UINT THEN "scanf(\"%u\", &" \o v.name \o ");"
        ELSE IF v.type.kind = CHAR_S THEN "scanf(\" %c\", &" \o v.name \o ");"
        ELSE Raised

\* initializers(vs) run to its end: pairs are the (declaration, assignment)
\* pairs yielded before the first exception, exc that exception
initializers(vs) ==
    LET all == [i \in 1..Len(vs) |-> <<declare(vs[i]), read_and_assign(vs, i, vs[i])>>]
        bad == {i \in 1..Len(vs) : all[i][2] = Raised}
    IN  IF bad = {} THEN [pairs |-> all, exc |-> NoException]
        ELSE [pairs |-> SubSeq(all, 1, (CHOOSE i \in bad : \A j \in bad : i <= j) - 1),
              exc |-> <<"AttributeError", "type object 'type' has no attribute 'kind'">>]

\* CHANGED: the key is the line alone, whatever the file
KeyLineOnly(n) == n.line

\* the key of max(): n.location.file.name == filename and n.location.line;
\* Python orders False like 0
Key(n) == IF n.file = filename THEN n.line ELSE 0

RECURSIVE MaxByKey(_, _, _)
\* max(ds, key = Key) from the j-th item on, best being the greatest so far:
\* only a strictly greater key replaces it, so the first greatest wins
MaxByKey(ds, j, best) ==
    IF j > Len(ds) THEN best
    ELSE MaxByKey(ds, j + 1, IF Key(ds[j]) > Key(best) THEN ds[j] ELSE best)

\* the text printed by the second print of codegen, line by line: joiner puts
\* every declaration and every assignment on a line of its own
Harness(fn_name, param_names, decls, defs) ==
    <<"int main() {", "// declare input variables">> \o decls
    \o <<"// prepare input variables">> \o defs
    \o <<"// call into segment", fn_name \o "(" \o Join(", ", param_names) \o ");", "}">>

\* codegen(fn_name, param_names, ins): text is the harness printed, exc the
\* exception raised instead (unpacking zip() of no pair; joining with a None)
codegen(fn_name, param_names, ins) ==
    IF Len(ins) = 0
    THEN [text |-> <<>>, printed |-> <<>>,
          exc |-> <<"ValueError", "not enough values to unpack (expected 2, got 0)">>]
    ELSE LET decls == [i \in 1..Len(ins) |-> ins[i][1]]
             defs == [i \in 1..Len(ins) |-> ins[i][2]]
         IN  IF \E i \in 1..Len(defs) : defs[i] = None
             THEN \* join() names the first item that is no str, counting from 0
                  LET first == CHOOSE i \in 1..Len(defs) :
                                   /\ defs[i] = None
                                   /\ \A h \in 1..(i - 1) : defs[h] # None
                  IN  [text |-> <<>>, printed |-> <<"generated test harness:">>,
                       exc |-> <<"TypeError",
                                 "sequence item " \o ToString(first - 1)
                                 \o ": expected str instance, NoneType found">>]
             ELSE [text |-> Harness(fn_name, param_names, decls, defs),
                   printed |-> <<"generated test harness:">>,
                   exc |-> NoException]

\* CHANGED: the parameter's initializers are put before those gathered so far
ExtendFront(ins, more) == more \o ins

\* inits += this_boy_inits
Extend(ins, more) == ins \o more

-----------------------------------------------------------------------------
(* main() *)

\* main() is entered: the translation unit is parsed and its name printed;
\* funcdecls is the generator over its function declarations
Init ==
    /\ pc = "select"
    /\ funcdecls \in DeclLists
    /\ target = NoTarget
    /\ parmesan = <<>>
    /\ parm = 1
    /\ locals = <<>>
    /\ this_boy_inits = <<>>
    /\ inits = <<>>
    /\ stdout = <<"translation unit: main.c">>
    /\ fragment = <<>>
    /\ error = NoException

\* target = max(funcdecls, key = ...); print the target (of pp(target) the
\* line printed keeps the name).  max() uses the generator up, and raises
\* ValueError when it yields nothing
SelectTarget ==
    /\ pc = "select"
    /\ funcdecls' = <<>>
    /\ IF Len(funcdecls) = 0
       THEN /\ pc' = "failed"
            /\ error' = <<"ValueError", "max() arg is an empty sequence">>
            /\ UNCHANGED <<target, stdout>>
       ELSE /\ pc' = "parms"
            /\ target' = MaxByKey(funcdecls, 2, funcdecls[1])
            /\ stdout' = Append(stdout, "target function: " \o target'.spelling)
            /\ error' = error
    /\ UNCHANGED <<parmesan, parm, locals, this_boy_inits, inits, fragment>>

\* parmesan = list(find(target, CursorKind.PARM_DECL))
ListParms ==
    /\ pc = "parms"
    /\ \E ps \in ParmLists : parmesan' = ps
    /\ parm' = 1
    /\ pc' = "loop"
    /\ UNCHANGED <<funcdecls, target, locals, this_boy_inits, inits, stdout,
                   fragment, error>>

\* one turn of "for parm in parmesan": flatten the parameter's type, make
\* its initializers and add them to inits; an exception ends main()
ParmStep ==
    /\ pc = "loop"
    /\ parm <= Len(parmesan)
    /\ LET p == parmesan[parm]
           lv == local_vars(p.type, p.displayname)
           ini == initializers(lv.vars)
       IN  IF lv.exc # NoException
           THEN /\ pc' = "failed"
                /\ error' = lv.exc
                /\ UNCHANGED <<parm, locals, this_boy_inits, inits>>
           ELSE IF ini.exc # NoException
           THEN /\ pc' = "failed"
                /\ error' = ini.exc
                /\ locals' = lv.vars
                /\ UNCHANGED <<parm, this_boy_inits, inits>>
           ELSE /\ locals' = lv.vars
                /\ this_boy_inits' = ini.pairs
                /\ inits' = Extend(inits, ini.pairs)
                /\ parm' = parm + 1
                /\ UNCHANGED <<pc, error>>
    /\ UNCHANGED <<funcdecls, target, parmesan, stdout, fragment>>

\* param_names = (p.displayname for p in parmesan);
\* codegen(target.spelling, param_names, inits)
Codegen ==
    /\ pc = "loop"
    /\ parm > Len(parmesan)
    /\ LET param_names == [j \in 1..Len(parmesan) |-> parmesan[j].displayname]
           out == codegen(target.spelling, param_names, inits)
       IN  /\ stdout' = stdout \o out.printed
           /\ fragment' = out.text
           /\ error' = out.exc
           /\ pc' = IF out.exc = NoException THEN "done" ELSE "failed"
    /\ UNCHANGED <<funcdecls, target, parmesan, parm, locals, this_boy_inits, inits>>

Next == SelectTarget \/ ListParms \/ ParmStep \/ Codegen

Spec == Init /\ [][Next]_vars

-----------------------------------------------------------------------------
(* local_vars and initializers called on their own, on one type *)

\* a caller holds a type and a variable name; parmesan holds the pair
FlattenInit ==
    /\ pc = "flatten"
    /\ funcdecls = <<>>
    /\ target = NoTarget
    /\ \E t \in Types, n \in VarNames : parmesan = <<[displayname |-> n, type |-> t]>>
    /\ parm = 1
    /\ locals = <<>>
    /\ this_boy_inits = <<>>
    /\ inits = <<>>
    /\ stdout = <<>>
    /\ fragment = <<>>
    /\ error = NoException

\* locals = list(local_vars(type, varname))
Flatten ==
    /\ pc = "flatten"
    /\ LET lv == local_vars(parmesan[1].type, parmesan[1].displayname)
       IN  IF lv.exc # NoException
           THEN pc' = "failed" /\ error' = lv.exc /\ locals' = locals
           ELSE pc' = "synthesize" /\ error' = error /\ locals' = lv.vars
    /\ UNCHANGED <<funcdecls, target, parmesan, parm, this_boy_inits, inits, stdout,
                   fragment>>

\* this_boy_inits = list(initializers(locals))
Synthesize ==
    /\ pc = "synthesize"
    /\ LET ini == initializers(locals)
       IN  IF ini.exc # NoException
           THEN pc' = "failed" /\ error' = ini.exc /\ this_boy_inits' = this_boy_inits
           ELSE pc' = "returned" /\ error' = error /\ this_boy_inits' = ini.pairs
    /\ UNCHANGED <<funcdecls, target, parmesan, parm, locals, inits, stdout, fragment>>

FlattenNext == Flatten \/ Synthesize

FlattenSpec == FlattenInit /\ [][FlattenNext]_vars

-----------------------------------------------------------------------------
(* What the properties below speak of *)

Primitive == {INT, UINT, CHAR_S}
Supported == Primitive \cup {POINTER, ELABORATED}

\* locals holds the whole output of local_vars for parmesan[1]
Flattened == pc \in {"synthesize", "returned"}
\* this_boy_inits holds the whole output of initializers for locals
Synthesized == pc = "returned"

RECURSIVE NodeCount(_), NodeCountFields(_, _)
\* number of type nodes of a type
NodeCount(type) ==
    IF type.kind = POINTER THEN 1 + NodeCount(type.pointee)
    ELSE IF type.kind = ELABORATED THEN 1 + NodeCountFields(type.fields, 1)
    ELSE 1
NodeCountFields(fs, j) ==
    IF j > Len(fs) THEN 0 ELSE NodeCount(fs[j].type) + NodeCountFields(fs, j + 1)

RECURSIVE KindsOf(_)
\* the kinds of the nodes of a type
KindsOf(type) ==
    IF type.kind = POINTER THEN {POINTER} \cup KindsOf(type.pointee)
    ELSE IF type.kind = ELABORATED
    THEN {ELABORATED} \cup UNION {KindsOf(type.fields[j].type) : j \in 1..Len(type.fields)}
    ELSE {type.kind}

\* the direct dependencies of a variable, as (type, name), in declared order
DirectDeps(v) ==
    IF v.type.kind = ELABORATED
    THEN [j \in 1..Len(v.type.fields) |->
            [type |-> v.type.fields[j].type, name |-> v.type.fields[j].displayname]]
    ELSE IF v.type.kind = POINTER
    THEN <<[type |-> v.type.pointee, name |-> v.name \o "_v"]>>
    ELSE <<>>

RECURSIVE Span(_, _), SpanBack(_, _, _)
\* how many entries, ending with vs[i], the variable vs[i] and all it depends
\* on take up in a post-order sequence
Span(vs, i) == IF i < 1 THEN 1 ELSE 1 + SpanBack(vs, i - 1, vs[i].children)
\* how many entries the k subtrees ending at vs[i] take up
SpanBack(vs, i, k) ==
    IF k = 0 THEN 0 ELSE LET n == Span(vs, i) IN n + SpanBack(vs, i - n, k - 1)

\* the index of the own entry of the j-th direct dependency of vs[i]
DepIndex(vs, i, j) == i - 1 - SpanBack(vs, i - 1, vs[i].children - j)

RECURSIVE Tree(_, _), Rebuild(_, _, _)
\* a type under a name as a tree of named nodes
Tree(type, name) ==
    [type |-> type, name |-> name,
     subs |-> IF type.kind = ELABORATED
              THEN [j \in 1..Len(type.fields) |->
                      Tree(type.fields[j].type, type.fields[j].displayname)]
              ELSE IF type.kind = POINTER THEN <<Tree(type.pointee, name \o "_v")>>
              ELSE <<>>]
\* reads a post-order sequence from entry i on: every entry takes its
\* childCount subtrees off the stack and puts its own tree there
Rebuild(vs, i, stack) ==
    IF i > Len(vs) THEN stack
    ELSE LET k == vs[i].children
         IN  IF k > Len(stack) THEN <<>>
             ELSE Rebuild(vs, i + 1,
                          Append(SubSeq(stack, 1, Len(stack) - k),
                                 [type |-> vs[i].type, name |-> vs[i].name,
                                  subs |-> SubSeq(stack, Len(stack) - k + 1, Len(stack))]))

\* C1: in the sequence local_vars returns, every pointer or struct entry at
\* index i with childCount k has at the indices i-k .. i-1 exactly its direct
\* dependencies (the k fields in declared order, or the pointee), also when a
\* field other than the first is a pointer or a struct with fields
C1_PositionalWindow ==
    Flattened =>
        \A i \in 1..Len(locals) :
            LET v == locals[i]
                k == v.children
            IN  v.type.kind \in {POINTER, ELABORATED} =>
                    /\ k = Len(DirectDeps(v))
                    /\ i - k >= 1
                    /\ \A j \in 1..k :
                        /\ DepIndex(locals, i, j) = i - k + j - 1
                        /\ locals[i - k + j - 1].type = DirectDeps(v)[j].type
                        /\ locals[i - k + j - 1].name = DirectDeps(v)[j].name

\* the k field assignments of the struct vs[i], joined into one statement
FieldAssignments(vs, i) ==
    LET k == vs[i].children
    IN  Join(" ", [j \in 1..k |->
                     vs[i].name \o "." \o vs[i - k + j - 1].name \o " = "
                     \o vs[i - k + j - 1].name \o ";"])

\* C2: for every struct entry with childCount k at index i, initializers gives
\* exactly k field assignments "<name>.<field> = <field>;", the j-th for the
\* entry at index i-k+j, in declared order, and none for k = 0
C2_FieldAssignments ==
    Synthesized =>
        \A i \in 1..Len(locals) :
            locals[i].type.kind = ELABORATED =>
                IF locals[i].children = 0
                THEN this_boy_inits[i][2] \in {None, ""}
                ELSE /\ i - locals[i].children >= 1
                     /\ this_boy_inits[i][2] = FieldAssignments(locals, i)

\* C3: local_vars returns the post-order traversal of the type: one entry per
\* type node, the fields' whole subsequences one after the other in declared
\* order and then the struct's own entry counting its fields, a single entry
\* with childCount 0 for a primitive or a struct without fields
C3_PostOrder ==
    Flattened =>
        /\ Len(locals) = NodeCount(parmesan[1].type)
        /\ \A i \in 1..Len(locals) : locals[i].children = Len(DirectDeps(locals[i]))
        /\ Rebuild(locals, 1, <<>>) = <<Tree(parmesan[1].type, parmesan[1].displayname)>>

\* a struct of two fields whose second field is a pointer has been flattened
C3_Witness ==
    /\ Flattened
    /\ \E i \in 2..Len(locals) :
        /\ locals[i].type.kind = ELABORATED
        /\ locals[i].children = 2
        /\ locals[i - 1].type.kind = POINTER

\* C4: a pointer flattened under the name N gives its pointee's subsequence
\* under N_v and then one entry (N, childCount 1); its assignment is
\* "N = &N_v;", N_v being the entry right before it, the pointee's own
C4_Pointer ==
    /\ Flattened =>
        \A i \in 1..Len(locals) :
            locals[i].type.kind = POINTER =>
                /\ locals[i].children = 1
                /\ i >= 2
                /\ locals[i - 1].type = locals[i].type.pointee
                /\ locals[i - 1].name = locals[i].name \o "_v"
                /\ Span(locals, i - 1) = NodeCount(locals[i].type.pointee)
                /\ Span(locals, i) = 1 + Span(locals, i - 1)
    /\ Synthesized =>
        \A i \in 1..Len(locals) :
            locals[i].type.kind = POINTER =>
                /\ i >= 2
                /\ this_boy_inits[i][2] =
                       locals[i].name \o " = &" \o locals[i - 1].name \o ";"

\* a pointer to a pointer and a pointer to a struct have been given their
\* assignments
C4_Witness ==
    /\ Synthesized
    /\ \E i \in 3..Len(locals) :
        /\ locals[i].type.kind = POINTER
        /\ locals[i - 1].type.kind \in {POINTER, ELABORATED}
        /\ locals[i - 1].children >= 1

\* the statement reading one value in the format fmt into the variable name
Read(fmt, name) == "scanf(\"" \o fmt \o "\", &" \o name \o ");"
\* whether a statement reads some variable of vs
IsRead(stmt, vs) ==
    \E fmt \in {"%d", "%u", " %c"}, i \in 1..Len(vs) : stmt = Read(fmt, vs[i].name)

\* C10: initializers gives one (declaration, assignment) pair per entry, at
\* the entry's index; a primitive's assignment is one read into its address,
\* "%d" for Int, "%u" for UInt, " %c" for Char; there are as many reads as
\* primitive entries
C10_Completeness ==
    Synthesized =>
        /\ Len(this_boy_inits) = Len(locals)
        /\ \A i \in 1..Len(locals) :
            LET v == locals[i]
                pair == this_boy_inits[i]
            IN  /\ pair[1] = spelling(v.type) \o " " \o v.name \o ";"
                /\ v.type.kind = INT => pair[2] = Read("%d", v.name)
                /\ v.type.kind = UINT => pair[2] = Read("%u", v.name)
                /\ v.type.kind = CHAR_S => pair[2] = Read(" %c", v.name)
        /\ Cardinality({i \in 1..Len(locals) : IsRead(this_boy_inits[i][2], locals)})
               = Cardinality({i \in 1..Len(locals) : locals[i].type.kind \in Primitive})

\* an unsigned and a character field of a struct have been given their reads
C10_Witness ==
    /\ Synthesized
    /\ \E i, j \in 1..Len(locals) :
        /\ locals[i].type.kind = UINT
        /\ locals[j].type.kind = CHAR_S
    /\ locals[Len(locals)].type.kind = ELABORATED

-----------------------------------------------------------------------------
(* main() as a whole *)

\* whether every node of every parameter type has a supported kind
AllSupported(ps) == \A j \in 1..Len(ps) : KindsOf(ps[j].type) \subseteq Supported
\* main() has ended
Ended == pc \in {"done", "failed"}
\* the parameters of the target are known
ParmsListed == pc \in {"loop", "done", "failed"} /\ target # NoTarget
\* the errors that tell an unsupported kind or the lack of a candidate function
UnhandledKind(e) ==
    /\ Len(e) = 2
    /\ e[1] \in {"local variables unhandled kind", "definitions unhandled kind"}
NoFunctionFound(e) == e = <<"ValueError", "max() arg is an empty sequence">>

\* C5: a run ends either with the whole harness printed or with an error that
\* tells the unsupported kind or the lack of a candidate function; when every
\* parameter type is built from Int, UInt, Char, Pointer and Composite (no
\* parameter at all, or structs without fields, included) the harness is printed
C5_TwoOutcomes ==
    /\ pc = "failed" => UnhandledKind(error) \/ NoFunctionFound(error)
    /\ (Ended /\ ParmsListed /\ AllSupported(parmesan)) =>
           pc = "done" /\ fragment # <<>>

\* the first parameter, in declared order, whose type holds an unsupported kind
FirstUnsupported(ps) ==
    CHOOSE j \in 1..Len(ps) :
        /\ ~(KindsOf(ps[j].type) \subseteq Supported)
        /\ \A h \in 1..(j - 1) : KindsOf(ps[h].type) \subseteq Supported

\* C6: when a parameter type holds, at any depth, a kind that is not
\* supported, main() ends with the unhandled-kind error of local_vars naming
\* a kind of that parameter's type, codegen is never entered and nothing of
\* the harness is printed, the earlier parameters' statements included
C6_UnsupportedAborts ==
    /\ fragment # <<>> => pc = "done"
    /\ (ParmsListed /\ ~AllSupported(parmesan)) =>
        /\ pc # "done"
        /\ fragment = <<>>
        /\ \A n \in 1..Len(stdout) : stdout[n] # "generated test harness:"
        /\ parm <= FirstUnsupported(parmesan)
        /\ pc = "failed" =>
            /\ parm = FirstUnsupported(parmesan)
            /\ error[1] = "local variables unhandled kind"
            /\ error[2] \in KindsOf(parmesan[parm].type) \ Supported

\* main() has failed on the second parameter, whose unsupported kind is below
\* a pointer or in a struct, after the first parameter's statements were made
C6_Witness ==
    /\ pc = "failed"
    /\ Len(parmesan) >= 2
    /\ parm = 2
    /\ inits # <<>>
    /\ parmesan[2].type.kind \in {POINTER, ELABORATED}
    /\ error = <<"local variables unhandled kind", DOUBLE>>

\* whether some declaration of ds is in the primary file
SomePrimary(ds) == \E j \in 1..Len(ds) : ds[j].file = filename

\* C7: when no function declaration is enumerated in the primary file (none
\* at all, or only declarations of other files), selecting the target fails
\* and no function is selected
C7_NoFunctionFound ==
    [][(pc = "select" /\ ~SomePrimary(funcdecls)) =>
           (pc' = "failed" /\ target' = NoTarget)]_vars

\* C8: when some enumerated declaration is in the primary file, the target is
\* one of the enumerated declarations, is in the primary file and has the
\* greatest line among those of the primary file, whatever the declarations
\* of other files and the order of enumeration
C8_LastInPrimaryFile ==
    [][(pc = "select" /\ SomePrimary(funcdecls)) =>
           /\ pc' = "parms"
           /\ \E j \in 1..Len(funcdecls) : target' = funcdecls[j]
           /\ target'.file = filename
           /\ \A j \in 1..Len(funcdecls) :
                  funcdecls[j].file = filename => funcdecls[j].line <= target'.line]_vars

\* the second enumerated declaration, at line 2 of the primary file, has been
\* selected over the first one
C8_Witness ==
    /\ pc = "parms"
    /\ target = [file |-> filename, line |-> 2, spelling |-> FuncNames[2]]

RECURSIVE NodesBefore(_, _)
\* number of type nodes of the parameters before the j-th
NodesBefore(ps, j) ==
    IF j <= 1 THEN 0 ELSE NodesBefore(ps, j - 1) + NodeCount(ps[j - 1].type)

\* C9: the harness printed holds all declarations, then all assignments, then
\* one call of the target with the parameters in declared order; each block
\* is, parameter after parameter in declared order, the parameter's statements
\* in the order local_vars gave its variables, the last being its own
C9_FragmentOrder ==
    pc = "done" =>
        LET n == Len(parmesan)
            total == NodesBefore(parmesan, n + 1)
            decls == SubSeq(fragment, 3, 2 + total)
            defs == SubSeq(fragment, 4 + total, 3 + 2 * total)
        IN  /\ Len(fragment) = 2 * total + 6
            /\ fragment[1] = "int main() {"
            /\ fragment[2] = "// declare input variables"
            /\ fragment[3 + total] = "// prepare input variables"
            /\ fragment[4 + 2 * total] = "// call into segment"
            /\ fragment[5 + 2 * total] =
                   target.spelling \o "("
                   \o Join(", ", [j \in 1..n |-> parmesan[j].displayname]) \o ");"
            /\ fragment[6 + 2 * total] = "}"
            /\ \A j \in 1..n :
                LET p == parmesan[j]
                    first == NodesBefore(parmesan, j) + 1
                    last == NodesBefore(parmesan, j + 1)
                    own == initializers(local_vars(p.type, p.displayname).vars).pairs
                IN  /\ SubSeq(decls, first, last) = [i \in 1..Len(own) |-> own[i][1]]
                    /\ SubSeq(defs, first, last) = [i \in 1..Len(own) |-> own[i][2]]
                    /\ decls[last] = spelling(p.type) \o " " \o p.displayname \o ";"

\* a harness has been printed for two parameters, the first a pointer
C9_Witness ==
    /\ pc = "done"
    /\ Len(parmesan) = 2
    /\ parmesan[1].type.kind = POINTER
    /\ Len(fragment) = 12

====
